---- MODULE Spec2Model ----
(***************************************************************************)
(* Model of the Meshtastic <-> Matrix relay of src/main.py.                *)
(*                                                                         *)
(* Text is a sequence of characters; a character is a one-element string,  *)
(* except "u2", "u3" and "u4", which stand for one character whose UTF-8    *)
(* encoding takes 2, 3 and 4 bytes.  Python's None is the value None.      *)
(***************************************************************************)
EXTENDS Integers, Sequences, FiniteSets, TLC

VARIABLES
    matrix_rooms,       \* relay_config["matrix_rooms"]: sequence of [id, meshtastic_channel]
    broadcast_enabled,  \* relay_config["meshtastic"]["broadcast_enabled"]
    mainPc,             \* position of main()'s while loop: "refresh", "sync", "sleep"
    sinceRefresh,       \* sync long-polls that timed out since update_longnames last ran
    failures,           \* passes of the while loop in a row that ended in the except clause
    longnames,          \* the longname table behind get_longname / update_longnames
    chatPc,             \* position of on_room_message: "idle", "displayname", "plugins", "relay", "done"
    chatEvent,          \* the event on_room_message is (or was last) called with
    chatSeq,            \* number of chat events delivered so far
    full_message,       \* local full_message of on_room_message
    pluginIdx,          \* index of the plugin the for loop of on_room_message is at
    handled,            \* plugins whose handle_room_message was awaited for chatEvent
    radioOut,           \* sendText calls made for chatEvent: [text, channelIndex]
    escaped,            \* an exception left on_room_message for chatEvent
    radioLog,           \* chatSeq of every event that reached sendText, in call order
    droppedBefore,      \* events dropped by the timestamp filter before chatEvent
    radioPc,            \* position of on_meshtastic_message: "idle", "plugins", "rooms", "done"
    packet,             \* the packet on_meshtastic_message is (or was last) called with
    pktSeq,             \* number of radio packets delivered so far
    formatted_message,  \* local formatted_message of on_meshtastic_message
    pktLongname,        \* local longname of on_meshtastic_message
    rPluginIdx,         \* index of the plugin the first for loop is at
    roomIdx,            \* index of the matrix_rooms entry the second for loop is at
    scheduled,          \* coroutines handed to run_coroutine_threadsafe for packet
    radioRaised,        \* an exception left on_meshtastic_message for packet
    loopQueue,          \* coroutines scheduled on the event loop and not yet started
    chatSent,           \* room_send calls issued by matrix_relay, in call order
    trunc_text,         \* argument text of a call of truncate_message
    trunc_max_bytes,    \* argument max_bytes of that call
    truncated_text      \* what the call returned, None before it returns

cfgVars   == <<matrix_rooms, broadcast_enabled>>
mainVars  == <<mainPc, sinceRefresh, failures, longnames>>
chatVars  == <<chatPc, chatEvent, chatSeq, full_message, pluginIdx, handled,
               radioOut, escaped, radioLog, droppedBefore>>
radioVars == <<radioPc, packet, pktSeq, formatted_message, pktLongname,
               rPluginIdx, roomIdx, scheduled, radioRaised>>
loopVars  == <<loopQueue, chatSent>>
truncVars == <<trunc_text, trunc_max_bytes, truncated_text>>
vars      == <<cfgVars, truncVars, mainVars, chatVars, radioVars, loopVars>>

----------------------------------------------------------------------------
(* Bounds of the model *)

MaxEvents  == 2     \* chat events delivered in one behaviour
MaxPackets == 2     \* radio packets delivered in one behaviour
MaxPlugins == 2     \* plugins returned by load_plugins
MaxTicks   == 3     \* cap of the sinceRefresh counter
MaxFailures == 2    \* cap of the failures counter
MaxLen     == 3     \* characters of a text given to truncate_message on its own
MaxCut     == 6     \* largest max_bytes given to truncate_message on its own

----------------------------------------------------------------------------
(* Text *)

None == <<"None">>

Rep(c, n) == [i \in 1..n |-> c]

Take(s, n) == SubSeq(s, 1, IF n < Len(s) THEN n ELSE Len(s))

Drop(s, n) == SubSeq(s, n + 1, Len(s))

\* Python truthiness of an optional string: None and "" are false
Truthy(v) == v # None /\ v # << >>

Whitespace == {" "}

RECURSIVE LStrip(_)
LStrip(s) == IF s # << >> /\ Head(s) \in Whitespace THEN LStrip(Tail(s)) ELSE s

RECURSIVE RStrip(_)
RStrip(s) ==
    IF s # << >> /\ s[Len(s)] \in Whitespace THEN RStrip(SubSeq(s, 1, Len(s) - 1)) ELSE s

\* str.strip()
Strip(s) == RStrip(LStrip(s))

\* number of bytes of the UTF-8 encoding of one character
Utf8Width(c) == CASE c = "u2" -> 2 [] c = "u3" -> 3 [] c = "u4" -> 4 [] OTHER -> 1

\* str.encode("utf-8"): byte k of the n bytes of character ch (the text is
\* encoded half by half, to keep the evaluation shallow)
RECURSIVE Encode(_)
Encode(text) ==
    IF text = << >> THEN << >>
    ELSE IF Len(text) = 1
         THEN [k \in 1..Utf8Width(text[1]) |->
                  [ch |-> text[1], k |-> k, n |-> Utf8Width(text[1])]]
         ELSE Encode(SubSeq(text, 1, Len(text) \div 2))
              \o Encode(SubSeq(text, Len(text) \div 2 + 1, Len(text)))

\* bytes[:max_bytes], with Python's meaning of a negative stop
Slice(bytes, max_bytes) ==
    IF max_bytes >= 0 THEN Take(bytes, max_bytes)
    ELSE Take(bytes, IF Len(bytes) + max_bytes > 0 THEN Len(bytes) + max_bytes ELSE 0)

\* mutant: the first byte of a character is taken for the whole character
WholeAt_FirstByte(bytes, i) == bytes[i].k = 1

\* the bytes at i form one whole character
WholeAt(bytes, i) ==
    /\ bytes[i].k = 1
    /\ i + bytes[i].n - 1 <= Len(bytes)
    /\ \A j \in 1..(bytes[i].n - 1) :
          bytes[i + j].ch = bytes[i].ch /\ bytes[i + j].k = j + 1

\* bytes.decode("utf-8", "ignore"): every whole character is kept, in order,
\* and the bytes that form no character are skipped
DecodeIgnore(bytes) ==
    LET starts == SelectSeq([i \in 1..Len(bytes) |-> i], LAMBDA i : WholeAt(bytes, i))
    IN  [j \in 1..Len(starts) |-> bytes[starts[j]].ch]

\* len(text.encode("utf-8"))
ByteLen(text) == Len(Encode(text))

MaxBytes == 227

truncate_message(text, max_bytes) == DecodeIgnore(Slice(Encode(text), max_bytes))

\* One atom of a regular expression built from interpolated text: "." matches
\* any character but a newline, every other character of the model's alphabet
\* matches itself.
AtomMatches(p, c) == IF p.meta /\ p.c = "." THEN c # "\n" ELSE p.c = c

Escaped(s) == [i \in 1..Len(s) |-> [meta |-> FALSE, c |-> s[i]]]

Interpolated(s) == [i \in 1..Len(s) |-> [meta |-> TRUE, c |-> s[i]]]

\* rf"^\[{full_display_name}\]: "
PrefixPattern(full_display_name) ==
    Escaped(<<"[">>) \o Interpolated(full_display_name) \o Escaped(<<"]", ":", " ">>)

MatchesAtStart(pat, text) ==
    /\ Len(text) >= Len(pat)
    /\ \A i \in 1..Len(pat) : AtomMatches(pat[i], text[i])

\* re.sub(pattern, "", text) for a pattern anchored with ^
RegexSubPrefix(pat, text) ==
    IF MatchesAtStart(pat, text) THEN Drop(text, Len(pat)) ELSE text

----------------------------------------------------------------------------
(* Configuration and inputs *)

bot_start_time == 10

bot_user_id == <<"@", "b", "o", "t">>

UserAlice == <<"@", "a", "l", "i", "c", "e">>

\* relay_config["meshtastic"]["meshnet_name"]
local_meshnet_name == <<"M", "e", "s", "h", "A">>

MeshB == <<"M", "e", "s", "h", "B">>

Bob == <<"B", "o", "b">>

Bobby == <<"B", "o", "b", "b", "y">>

DisplayAlice == <<"A", "l", "i", "c", "e", "W">>

Room1 == "!room1"

Room2 == "!room2"

Room3 == "!room3"

RoomIds == {Room1, Room2, Room3}

\* matrix_rooms as config.yaml may give it: channel 0 mapped to two rooms and
\* Room1 listed twice, or a single entry
RoomConfigs ==
    { << [id |-> Room1, meshtastic_channel |-> 0],
         [id |-> Room2, meshtastic_channel |-> 0],
         [id |-> Room1, meshtastic_channel |-> 1] >>,
      << [id |-> Room2, meshtastic_channel |-> 1] >> }

\* the list load_plugins returns
plugins == [i \in 1..MaxPlugins |-> i]

Bracketed(longname, meshnet) == <<"[">> \o longname \o <<"/">> \o meshnet \o <<"]", ":", " ">>

BodyYo == Bracketed(Bob, MeshB) \o <<"y", "o">>

BodyHi == <<" ", "h", "i", " ">>

BodyLong == Bracketed(Bob, MeshB) \o Rep("y", MaxBytes - 2) \o <<"u3", "z">>

BodyBobby == Bracketed(Bobby, MeshB) \o <<"y", "o">>

BodyYoSpace == BodyYo \o <<" ">>

Bodies == {BodyYo, BodyYoSpace, BodyBobby, BodyHi, BodyLong}

\* every combination of the fields the guards and the routing read ...
RoutingEvents ==
    [ sender : {bot_user_id, UserAlice},
      server_timestamp : {bot_start_time - 1, bot_start_time, bot_start_time + 1},
      room_id : RoomIds,
      body : {BodyYo},
      meshtastic_longname : {None, << >>, Bob},
      meshtastic_meshnet : {None, local_meshnet_name, MeshB} ]

\* ... and every combination of the fields the text is made from
TextEvents ==
    [ sender : {UserAlice},
      server_timestamp : {bot_start_time + 1},
      room_id : {Room1},
      body : Bodies,
      meshtastic_longname : {None, Bob, Bobby},
      meshtastic_meshnet : {None, local_meshnet_name, MeshB} ]

ChatEvents == RoutingEvents \cup TextEvents

NoEvent ==
    [ sender |-> None, server_timestamp |-> 0, room_id |-> "", body |-> << >>,
      meshtastic_longname |-> None, meshtastic_meshnet |-> None ]

Min(a, b) == IF a < b THEN a ELSE b

----------------------------------------------------------------------------
(* main(): the while True loop, lines 351-362 *)

NodeAbcd == <<"!", "a", "b", "c", "d">>

NodeIds == {NodeAbcd}

Alice == <<"A", "l", "i", "c", "e">>

\* node tables the radio adapter may hold: a node is unknown (None), known
\* with an empty longname, or known with a longname
NodeTables == [NodeIds -> {None, << >>, Alice}]

\* the radio adapter has heard of no node
NoNodes == [n \in NodeIds |-> None]

\* db_utils.update_longnames(nodes): upserts the longname of every node of
\* the snapshot; an entry of a node the snapshot lacks is kept
update_longnames(table, snapshot) ==
    [n \in NodeIds |-> IF snapshot[n] # None THEN snapshot[n] ELSE table[n]]

\* db_utils.get_longname(node): the stored longname, or None
get_longname(table, node) == IF node \in DOMAIN table THEN table[node] ELSE None

\* line 357: sync_forever(timeout=30000), the length of one long-poll in ms
SyncTimeoutMs == 30000

\* line 362: asyncio.sleep(60), "Update longnames every 60 seconds"
SleepSeconds == 60

\* the refresh interval, in long-polls that time out
RefreshIntervalPolls == (SleepSeconds * 1000) \div SyncTimeoutMs

\* mutant: nothing catches the exception and main() is left
SyncRaised_Uncaught ==
    /\ mainPc' = "crashed"
    /\ failures' = Min(failures + 1, MaxFailures)

\* the except clause of main(): log, then fall through to asyncio.sleep(60)
SyncRaised ==
    /\ mainPc' = "sleep"
    /\ failures' = Min(failures + 1, MaxFailures)

\* line 354: update_longnames(meshtastic_interface.nodes), where snapshot is the
\* node table the radio adapter holds by then; sync_forever is entered next
MainRefresh(snapshot) ==
    /\ mainPc = "refresh"
    /\ \/ /\ longnames' = update_longnames(longnames, snapshot)
          /\ sinceRefresh' = 0
          /\ failures' = 0
          /\ mainPc' = "sync"
       \/ /\ SyncRaised                       \* update_longnames raises
          /\ UNCHANGED <<longnames, sinceRefresh>>
    /\ UNCHANGED <<cfgVars, truncVars, chatVars, radioVars, loopVars>>

\* line 357: one long-poll of sync_forever(timeout=30000) times out with no event
MainSyncPoll ==
    /\ mainPc = "sync"
    /\ chatPc = "idle"
    /\ sinceRefresh' = Min(sinceRefresh + 1, MaxTicks)
    /\ UNCHANGED <<cfgVars, truncVars, mainPc, failures, longnames,
                   chatVars, radioVars, loopVars>>

\* line 357: sync_forever raises (the homeserver cannot be reached)
MainSyncFail ==
    /\ mainPc = "sync"
    /\ chatPc = "idle"
    /\ SyncRaised
    /\ UNCHANGED <<cfgVars, truncVars, sinceRefresh, longnames, chatVars, radioVars, loopVars>>

\* line 362: asyncio.sleep(60) returns and the loop starts over (a callback
\* that raised into sync_forever was left before the except clause ran)
MainWake ==
    /\ mainPc = "sleep"
    /\ chatPc = "idle"
    /\ mainPc' = "refresh"
    /\ UNCHANGED <<cfgVars, truncVars, sinceRefresh, failures, longnames,
                   chatVars, radioVars, loopVars>>

----------------------------------------------------------------------------
(* on_room_message, lines 236-305 *)

\* mutant: the sender is not looked at
NotFromBot_Anyone(ev) == TRUE

\* line 241: event.sender != bot_user_id
NotFromBot(ev) == ev.sender # bot_user_id

\* mutant: the comparison lets the start time itself through
AfterStart_Inclusive(ev) == ev.server_timestamp >= bot_start_time

\* line 244: message_timestamp > bot_start_time
AfterStart(ev) == ev.server_timestamp > bot_start_time

\* line 251: if longname and meshnet_name
HasProvenance(ev) == Truthy(ev.meshtastic_longname) /\ Truthy(ev.meshtastic_meshnet)

\* line 253: meshnet_name != local_meshnet_name
FromRemoteMeshnet(ev) == ev.meshtastic_meshnet # local_meshnet_name

\* mutant: the prefix is made of the whole names
RemoteFullMessage_WholeNames(ev) ==
    LET full_display_name == ev.meshtastic_longname \o <<"/">> \o ev.meshtastic_meshnet
        text == RegexSubPrefix(PrefixPattern(full_display_name), Strip(ev.body))
    IN  full_display_name \o <<":", " ">> \o truncate_message(text, MaxBytes)

\* lines 252-262: the text relayed for a message of a remote meshnet
RemoteFullMessage(ev) ==
    LET longname == ev.meshtastic_longname
        meshnet_name == ev.meshtastic_meshnet
        full_display_name == longname \o <<"/">> \o meshnet_name
        prefix == Take(longname, 3) \o <<"/">> \o Take(meshnet_name, 4) \o <<":", " ">>
        text == RegexSubPrefix(PrefixPattern(full_display_name), Strip(ev.body))
    IN  prefix \o truncate_message(text, MaxBytes)

\* get_displayname(event.sender) answers with a display name or with none
DisplayNames == {None, DisplayAlice}

\* lines 271-278: the text relayed for a message written in the chat room
LocalFullMessage(ev, displayname) ==
    LET full_display_name == IF Truthy(displayname) THEN displayname ELSE ev.sender
        prefix == Take(full_display_name, 5) \o <<"[", "M", "]", ":", " ">>
    IN  prefix \o truncate_message(Strip(ev.body), MaxBytes)

\* lines 280-284: index of the first entry of matrix_rooms for the room, 0 if none
RoomConfig(rooms, room_id) ==
    IF \E i \in 1..Len(rooms) : rooms[i].id = room_id
    THEN CHOOSE i \in 1..Len(rooms) :
            /\ rooms[i].id = room_id
            /\ \A j \in 1..(i - 1) : rooms[j].id # room_id
    ELSE 0

\* mutant: the plugin loop is skipped
PluginLoopStart_Skipped == "relay"

\* where on_room_message stands once full_message is set
PluginLoopStart == IF Len(plugins) = 0 THEN "relay" ELSE "plugins"

\* an exception leaves on_room_message: sync_forever, which awaits the
\* callback, raises it into the try block of main()
ChatRaise ==
    /\ escaped' = TRUE
    /\ chatPc' = "done"
    /\ SyncRaised

\* sync_forever calls on_room_message(room, event); it runs to its first await
ChatDeliver(ev) ==
    /\ mainPc = "sync"
    /\ chatPc = "idle"
    /\ chatSeq < MaxEvents
    /\ chatSeq' = chatSeq + 1
    /\ chatEvent' = ev
    /\ handled' = << >>
    /\ radioOut' = << >>
    /\ escaped' = FALSE
    /\ pluginIdx' = 1
    /\ droppedBefore' =
          IF NotFromBot(ev) /\ ~AfterStart(ev) THEN Min(droppedBefore + 1, MaxEvents)
          ELSE droppedBefore
    /\ IF NotFromBot(ev) /\ AfterStart(ev)
       THEN IF HasProvenance(ev)
            THEN IF FromRemoteMeshnet(ev)
                 THEN /\ full_message' = RemoteFullMessage(ev)
                      /\ chatPc' = PluginLoopStart
                 ELSE /\ full_message' = None
                      /\ chatPc' = "done"
            ELSE /\ full_message' = None
                 /\ chatPc' = "displayname"
       ELSE /\ full_message' = None
            /\ chatPc' = "done"
    /\ UNCHANGED <<cfgVars, truncVars, mainVars, radioLog, radioVars, loopVars>>

\* lines 268-278: get_displayname answers
ChatDisplayName(displayname) ==
    /\ chatPc = "displayname"
    /\ full_message' = LocalFullMessage(chatEvent, displayname)
    /\ chatPc' = PluginLoopStart
    /\ UNCHANGED <<cfgVars, truncVars, mainVars, chatEvent, chatSeq, pluginIdx, handled, radioOut,
                   escaped, radioLog, droppedBefore, radioVars, loopVars>>

\* lines 268-270: get_displayname raises
ChatDisplayNameRaises ==
    /\ chatPc = "displayname"
    /\ ChatRaise
    /\ UNCHANGED <<cfgVars, truncVars, sinceRefresh, longnames, chatEvent, chatSeq,
                   full_message, pluginIdx, handled, radioOut, radioLog, droppedBefore,
                   radioVars, loopVars>>

\* lines 287-289, one iteration: configure, then await handle_room_message
ChatPluginOk ==
    /\ chatPc = "plugins"
    /\ handled' = Append(handled, plugins[pluginIdx])
    /\ pluginIdx' = pluginIdx + 1
    /\ chatPc' = IF pluginIdx = Len(plugins) THEN "relay" ELSE "plugins"
    /\ UNCHANGED <<cfgVars, truncVars, mainVars, chatEvent, chatSeq, full_message, radioOut,
                   escaped, radioLog, droppedBefore, radioVars, loopVars>>

\* line 288: plugin.configure raises
ChatPluginConfigureRaises ==
    /\ chatPc = "plugins"
    /\ ChatRaise
    /\ UNCHANGED <<cfgVars, truncVars, sinceRefresh, longnames, chatEvent, chatSeq,
                   full_message, pluginIdx, handled, radioOut, radioLog, droppedBefore,
                   radioVars, loopVars>>

\* line 289: handle_room_message is awaited and raises
ChatPluginHandlerRaises ==
    /\ chatPc = "plugins"
    /\ handled' = Append(handled, plugins[pluginIdx])
    /\ ChatRaise
    /\ UNCHANGED <<cfgVars, truncVars, sinceRefresh, longnames, chatEvent, chatSeq,
                   full_message, pluginIdx, radioOut, radioLog, droppedBefore,
                   radioVars, loopVars>>

\* lines 291-305: the relay step, then on_room_message returns
ChatRelay ==
    /\ chatPc = "relay"
    /\ LET room_config == RoomConfig(matrix_rooms, chatEvent.room_id)
       IN  IF room_config # 0 /\ broadcast_enabled
           THEN /\ radioOut' = Append(radioOut,
                       [text |-> full_message,
                        channelIndex |-> matrix_rooms[room_config].meshtastic_channel])
                /\ radioLog' = Append(radioLog, chatSeq)
           ELSE UNCHANGED <<radioOut, radioLog>>
    /\ chatPc' = "done"
    /\ UNCHANGED <<cfgVars, truncVars, mainVars, chatEvent, chatSeq, full_message, pluginIdx,
                   handled, escaped, droppedBefore, radioVars, loopVars>>

\* on_room_message is left: its locals, and the record of what it did for
\* the event, are gone
ChatReturn ==
    /\ chatPc = "done"
    /\ chatPc' = "idle"
    /\ chatEvent' = NoEvent
    /\ full_message' = None
    /\ pluginIdx' = 1
    /\ handled' = << >>
    /\ radioOut' = << >>
    /\ escaped' = FALSE
    /\ UNCHANGED <<cfgVars, truncVars, mainVars, chatSeq, radioLog, droppedBefore, radioVars, loopVars>>

----------------------------------------------------------------------------
(* on_meshtastic_message, lines 149-218 *)

Portnums == {"TEXT_MESSAGE_APP", "TELEMETRY_APP", "POSITION_APP", "ADMIN_APP",
             "RANGE_TEST_APP"}

Hi == <<"h", "i">>

\* packets the radio adapter publishes: "channel" may be missing (has_channel
\* false), decoded.text may be missing (None) or empty
Packets ==
    { p \in [ fromId : NodeIds,
              has_channel : BOOLEAN,
              channel : {0, 5},
              portnum : Portnums,
              text : {None, << >>, Hi} ] :
        ~p.has_channel => p.channel = 0 }

NoPacket ==
    [ fromId |-> None, has_channel |-> FALSE, channel |-> 0,
      portnum |-> "", text |-> None ]

\* line 152: "text" in packet["decoded"] and packet["decoded"]["text"]
HasText(pkt) == Truthy(pkt.text)

\* lines 155-162: a channel is found for the packet
HasChannel(pkt) == pkt.has_channel \/ pkt.portnum = "TEXT_MESSAGE_APP"

\* lines 155-159
Channel(pkt) == IF pkt.has_channel THEN pkt.channel ELSE 0

\* line 167 and line 198: the entry is one of the packet's channel
EntryMatches(room, channel) == room.meshtastic_channel = channel

\* lines 165-169
ChannelMapped(rooms, channel) ==
    \E i \in 1..Len(rooms) : EntryMatches(rooms[i], channel)

\* lines 152-173: the packet gets past every return of the callback
Relayable(pkt, rooms) ==
    /\ HasText(pkt)
    /\ HasChannel(pkt)
    /\ ChannelMapped(rooms, Channel(pkt))

\* line 179: get_longname(sender) or sender
SenderLongname(table, sender) ==
    IF Truthy(get_longname(table, sender)) THEN get_longname(table, sender) ELSE sender

\* line 182
FormattedMessage(longname, meshnet_name, text) == Bracketed(longname, meshnet_name) \o text

PluginTask(seq, plugin) ==
    [ kind |-> "plugin", pkt |-> seq, plugin |-> plugin, room_id |-> "",
      message |-> << >>, longname |-> << >>, meshnet_name |-> << >> ]

RelayTask(seq, room_id, message, longname, meshnet_name) ==
    [ kind |-> "relay", pkt |-> seq, plugin |-> 0, room_id |-> room_id,
      message |-> message, longname |-> longname, meshnet_name |-> meshnet_name ]

\* mutant: the plugin loop of the callback is skipped
RadioLoopStart_NoPlugins == "rooms"

\* where the callback stands once formatted_message is set
RadioLoopStart == IF Len(plugins) = 0 THEN "rooms" ELSE "plugins"

\* the radio adapter's thread calls on_meshtastic_message(packet): lines 150-185
RadioReceive(pkt) ==
    /\ radioPc = "idle"
    /\ pktSeq < MaxPackets
    /\ pktSeq' = pktSeq + 1
    /\ packet' = pkt
    /\ scheduled' = << >>
    /\ radioRaised' = FALSE
    /\ rPluginIdx' = 1
    /\ roomIdx' = 1
    /\ IF Relayable(pkt, matrix_rooms)
       THEN /\ pktLongname' = SenderLongname(longnames, pkt.fromId)
            /\ formatted_message' =
                  FormattedMessage(SenderLongname(longnames, pkt.fromId),
                                   local_meshnet_name, pkt.text)
            /\ radioPc' = RadioLoopStart
       ELSE /\ pktLongname' = None
            /\ formatted_message' = None
            /\ radioPc' = "done"
    /\ UNCHANGED <<cfgVars, truncVars, mainVars, chatVars, loopVars>>

\* lines 188-195, one iteration: configure, then schedule handle_meshtastic_message
RadioPluginOk ==
    /\ radioPc = "plugins"
    /\ LET task == PluginTask(pktSeq, plugins[rPluginIdx])
       IN  /\ scheduled' = Append(scheduled, task)
           /\ loopQueue' = Append(loopQueue, task)
    /\ rPluginIdx' = rPluginIdx + 1
    /\ radioPc' = IF rPluginIdx = Len(plugins) THEN "rooms" ELSE "plugins"
    /\ UNCHANGED <<cfgVars, truncVars, mainVars, chatVars, packet, pktSeq, formatted_message,
                   pktLongname, roomIdx, radioRaised, chatSent>>

\* line 189: plugin.configure raises and the exception leaves the callback
RadioPluginConfigureRaises ==
    /\ radioPc = "plugins"
    /\ radioRaised' = TRUE
    /\ radioPc' = "done"
    /\ UNCHANGED <<cfgVars, truncVars, mainVars, chatVars, packet, pktSeq, formatted_message,
                   pktLongname, rPluginIdx, roomIdx, scheduled, loopVars>>

\* mutant: the callback issues the send itself instead of scheduling it
RadioRoomStep_SendsItself ==
    /\ radioPc = "rooms"
    /\ LET room == matrix_rooms[roomIdx]
           task == RelayTask(pktSeq, room.id, formatted_message, pktLongname,
                             local_meshnet_name)
       IN  IF EntryMatches(room, Channel(packet))
           THEN /\ scheduled' = Append(scheduled, task)
                /\ chatSent' = Append(chatSent,
                      [ pkt |-> pktSeq, room_id |-> room.id,
                        content |-> [ msgtype |-> "m.text", body |-> formatted_message,
                                      meshtastic_longname |-> pktLongname,
                                      meshtastic_meshnet |-> local_meshnet_name ],
                        result |-> "sent" ])
           ELSE UNCHANGED <<scheduled, chatSent>>
    /\ roomIdx' = roomIdx + 1
    /\ radioPc' = IF roomIdx = Len(matrix_rooms) THEN "done" ELSE "rooms"
    /\ UNCHANGED <<cfgVars, truncVars, mainVars, chatVars, packet, pktSeq, formatted_message,
                   pktLongname, rPluginIdx, radioRaised, loopQueue>>

\* lines 197-208, one iteration: schedule matrix_relay if the entry matches
RadioRoomStep ==
    /\ radioPc = "rooms"
    /\ LET room == matrix_rooms[roomIdx]
           task == RelayTask(pktSeq, room.id, formatted_message, pktLongname,
                             local_meshnet_name)
       IN  IF EntryMatches(room, Channel(packet))
           THEN /\ scheduled' = Append(scheduled, task)
                /\ loopQueue' = Append(loopQueue, task)
           ELSE UNCHANGED <<scheduled, loopQueue>>
    /\ roomIdx' = roomIdx + 1
    /\ radioPc' = IF roomIdx = Len(matrix_rooms) THEN "done" ELSE "rooms"
    /\ UNCHANGED <<cfgVars, truncVars, mainVars, chatVars, packet, pktSeq, formatted_message,
                   pktLongname, rPluginIdx, radioRaised, chatSent>>

\* on_meshtastic_message is left: its locals, and the record of what it
\* scheduled for the packet, are gone
RadioReturn ==
    /\ radioPc = "done"
    /\ radioPc' = "idle"
    /\ packet' = NoPacket
    /\ formatted_message' = None
    /\ pktLongname' = None
    /\ rPluginIdx' = 1
    /\ roomIdx' = 1
    /\ scheduled' = << >>
    /\ radioRaised' = FALSE
    /\ UNCHANGED <<cfgVars, truncVars, mainVars, chatVars, pktSeq, loopVars>>

----------------------------------------------------------------------------
(* the event loop: coroutines start in the order they were scheduled *)

\* lines 126-131
Content(task) ==
    [ msgtype |-> "m.text", body |-> task.message,
      meshtastic_longname |-> task.longname, meshtastic_meshnet |-> task.meshnet_name ]

\* room_send under wait_for(timeout=0.5): it returns, times out or raises
SendResults == {"sent", "timeout", "error"}

\* a scheduled handle_meshtastic_message runs; what it raises stays in its future
LoopRunPlugin ==
    /\ loopQueue # << >>
    /\ Head(loopQueue).kind = "plugin"
    /\ loopQueue' = Tail(loopQueue)
    /\ UNCHANGED <<cfgVars, truncVars, mainVars, chatVars, radioVars, chatSent>>

\* mutant: a send that fails takes the other sends of its packet with it
LoopRunRelay_FailureAborts(result) ==
    /\ loopQueue # << >>
    /\ Head(loopQueue).kind = "relay"
    /\ loopQueue' =
          IF result = "sent" THEN Tail(loopQueue)
          ELSE SelectSeq(Tail(loopQueue), LAMBDA task : task.pkt # Head(loopQueue).pkt)
    /\ chatSent' = Append(chatSent,
          [ pkt |-> Head(loopQueue).pkt, room_id |-> Head(loopQueue).room_id,
            content |-> Content(Head(loopQueue)), result |-> result ])
    /\ UNCHANGED <<cfgVars, truncVars, mainVars, chatVars, radioVars>>

\* mutant: the event loop starts the send scheduled last
LoopRunRelay_Newest(result) ==
    /\ loopQueue # << >>
    /\ loopQueue[Len(loopQueue)].kind = "relay"
    /\ loopQueue' = SubSeq(loopQueue, 1, Len(loopQueue) - 1)
    /\ chatSent' = Append(chatSent,
          [ pkt |-> loopQueue[Len(loopQueue)].pkt,
            room_id |-> loopQueue[Len(loopQueue)].room_id,
            content |-> Content(loopQueue[Len(loopQueue)]), result |-> result ])
    /\ UNCHANGED <<cfgVars, truncVars, mainVars, chatVars, radioVars>>

\* matrix_relay, lines 124-145: a scheduled send runs
LoopRunRelay(result) ==
    /\ loopQueue # << >>
    /\ Head(loopQueue).kind = "relay"
    /\ loopQueue' = Tail(loopQueue)
    /\ chatSent' = Append(chatSent,
          [ pkt |-> Head(loopQueue).pkt, room_id |-> Head(loopQueue).room_id,
            content |-> Content(Head(loopQueue)), result |-> result ])
    /\ UNCHANGED <<cfgVars, truncVars, mainVars, chatVars, radioVars>>

----------------------------------------------------------------------------
(* truncate_message called on its own, lines 221-232 *)

TruncAlphabet == {"a", "u2", "u3", "u4"}

\* the texts of at most n characters
Texts(n) == UNION { [1..k -> TruncAlphabet] : k \in 0..n }

\* truncate_message(text, max_bytes) returns
Truncate ==
    /\ truncated_text = None
    /\ truncated_text' = truncate_message(trunc_text, trunc_max_bytes)
    /\ UNCHANGED <<cfgVars, trunc_text, trunc_max_bytes, mainVars, chatVars, radioVars,
                   loopVars>>

----------------------------------------------------------------------------
(* Specifications *)

\* the relay after construction: nothing was received yet
ProgramInit ==
    /\ matrix_rooms \in RoomConfigs
    /\ broadcast_enabled \in BOOLEAN
    /\ mainPc = "refresh"
    /\ sinceRefresh = 0
    /\ failures = 0
    /\ longnames = [n \in NodeIds |-> None]
    /\ chatPc = "idle"
    /\ chatEvent = NoEvent
    /\ chatSeq = 0
    /\ full_message = None
    /\ pluginIdx = 1
    /\ handled = << >>
    /\ radioOut = << >>
    /\ escaped = FALSE
    /\ radioLog = << >>
    /\ droppedBefore = 0
    /\ radioPc = "idle"
    /\ packet = NoPacket
    /\ pktSeq = 0
    /\ formatted_message = None
    /\ pktLongname = None
    /\ rPluginIdx = 1
    /\ roomIdx = 1
    /\ scheduled = << >>
    /\ radioRaised = FALSE
    /\ loopQueue = << >>
    /\ chatSent = << >>

Init ==
    /\ ProgramInit
    /\ trunc_text = << >>
    /\ trunc_max_bytes = 0
    /\ truncated_text = None

\* a call of truncate_message with any text and any max_bytes >= 0
TruncInit ==
    /\ ProgramInit
    /\ trunc_text \in Texts(MaxLen)
    /\ trunc_max_bytes \in 0..MaxCut
    /\ truncated_text = None

\* the chat path: on_room_message under the loop of main(), while the radio
\* adapter hears of no node
ChatNext ==
    \/ \E ev \in ChatEvents : ChatDeliver(ev)
    \/ \E displayname \in DisplayNames : ChatDisplayName(displayname)
    \/ ChatDisplayNameRaises
    \/ ChatPluginOk
    \/ ChatPluginConfigureRaises
    \/ ChatPluginHandlerRaises
    \/ ChatRelay
    \/ ChatReturn
    \/ MainRefresh(NoNodes)
    \/ MainSyncFail
    \/ MainWake

\* on_meshtastic_message and the coroutines it schedules
RadioHandlerNext ==
    \/ \E pkt \in Packets : RadioReceive(pkt)
    \/ RadioPluginOk
    \/ RadioPluginConfigureRaises
    \/ RadioRoomStep
    \/ RadioReturn
    \/ LoopRunPlugin
    \/ \E result \in SendResults : LoopRunRelay(result)

\* the radio path: the handler and the longname table it reads
RadioNext ==
    \/ RadioHandlerNext
    \/ \E snapshot \in NodeTables : MainRefresh(snapshot)

\* one source at a time: the chat path while the radio is silent, or the
\* radio handler while main() has not yet entered its loop (the two handlers
\* share no variable that either writes)
RelayNext ==
    \/ pktSeq = 0 /\ radioPc = "idle" /\ ChatNext
    \/ chatSeq = 0 /\ chatPc = "idle" /\ mainPc = "refresh" /\ failures = 0
       /\ RadioHandlerNext

\* chat events sent under the bot's own identity, whatever else they carry
BotEvents == { ev \in RoutingEvents : ev.sender = bot_user_id }

\* the chat event the homeserver makes of a message the bot sent with
\* matrix_relay: the sender is the identity the client is logged in with
EchoEvent(sent) ==
    [ sender |-> bot_user_id,
      server_timestamp |-> bot_start_time + 1,
      room_id |-> sent.room_id,
      body |-> sent.content.body,
      meshtastic_longname |-> sent.content.meshtastic_longname,
      meshtastic_meshnet |-> sent.content.meshtastic_meshnet ]

\* sync_forever delivers a message of matrix_relay that reached the
\* homeserver (the 0.5 s of wait_for may be over before the answer is in)
ChatDeliverEcho ==
    \E i \in 1..Len(chatSent) :
        /\ chatSent[i].result \in {"sent", "timeout"}
        /\ ChatDeliver(EchoEvent(chatSent[i]))

\* the radio path, then the chat path for what the bot itself sent: the echo
\* of a message comes after its send, and the two handlers share no variable
\* that either writes, so the packets are handled first (while sync_forever
\* runs) and the events are delivered once the event loop has nothing left
EchoNext ==
    \/ MainRefresh(NoNodes)
    \/ mainPc = "sync" /\ chatSeq = 0 /\ chatPc = "idle" /\ RadioHandlerNext
    \/ radioPc = "idle" /\ loopQueue = << >> /\ ChatDeliverEcho
    \/ radioPc = "idle" /\ loopQueue = << >> /\ \E ev \in BotEvents : ChatDeliver(ev)
    \/ ChatReturn

\* the loop of main() alone
MainNext ==
    \/ \E snapshot \in NodeTables : MainRefresh(snapshot)
    \/ MainSyncPoll
    \/ MainSyncFail
    \/ MainWake

\* a pass of the loop of main() in which update_longnames returns
MainRefreshOk == \E snapshot \in NodeTables : MainRefresh(snapshot) /\ mainPc' = "sync"

TruncNext == Truncate

Next == ChatNext \/ RadioNext \/ MainNext \/ TruncNext

Spec == Init /\ [][Next]_vars

ChatSpec == Init /\ [][ChatNext]_vars

\* the radio path does not read broadcast_enabled
RadioInit == Init /\ broadcast_enabled = TRUE

RadioSpec == RadioInit /\ [][RadioNext]_vars

MainSpec == Init /\ [][MainNext]_vars

RelaySpec == Init /\ [][RelayNext]_vars

\* the loop of main() when asyncio.sleep returns and update_longnames does not
\* raise for ever
MainLiveSpec ==
    Init /\ [][MainNext]_vars /\ WF_vars(MainWake) /\ SF_vars(MainRefreshOk)

EchoSpec == RadioInit /\ [][EchoNext]_vars

TruncSpec == TruncInit /\ [][TruncNext]_vars

----------------------------------------------------------------------------
(* Properties of the chat path *)

\* on_room_message has returned, or raised, for chatEvent
ChatDone == chatPc = "done"

\* chatEvent is none of the events the guards of lines 241-265 drop
ChatAccepted ==
    /\ chatEvent.sender # bot_user_id
    /\ chatEvent.server_timestamp > bot_start_time
    /\ ~ ( /\ chatEvent.meshtastic_longname \notin {None, << >>}
           /\ chatEvent.meshtastic_meshnet = local_meshnet_name )

\* matrix_rooms has an entry for the room of chatEvent
RoomMapped == \E i \in 1..Len(matrix_rooms) : matrix_rooms[i].id = chatEvent.room_id

\* C1 (as claimed): a chat event whose meshtastic_meshnet is the local meshnet
\* name never causes a radio send, whatever its other fields are.
C1_LoopPrevention ==
    chatEvent.meshtastic_meshnet = local_meshnet_name => radioOut = << >>

\* C3 (as claimed): for an event that passed the guards and reached the plugin
\* loop, every plugin's handler is invoked, the relay step runs (one send when
\* the room is mapped and broadcast is enabled) and nothing leaves
\* on_room_message, although a plugin may raise.
C3_ChatPluginIsolation ==
    (ChatDone /\ ChatAccepted /\ full_message # None) =>
        /\ handled = plugins
        /\ ~escaped
        /\ (RoomMapped /\ broadcast_enabled) => Len(radioOut) = 1

\* C8 (as claimed): with broadcast disabled no event causes a radio send; with
\* it enabled an event that passed the guards (and whose text was made) causes
\* exactly one send, on the channel of the first matrix_rooms entry of its
\* room, if the room is mapped and none if it is not.
C8_BroadcastGate ==
    /\ ~broadcast_enabled => radioOut = << >>
    /\ (ChatDone /\ ChatAccepted /\ full_message # None /\ broadcast_enabled) =>
          IF RoomMapped
          THEN /\ Len(radioOut) = 1
               /\ \E i \in 1..Len(matrix_rooms) :
                     /\ matrix_rooms[i].id = chatEvent.room_id
                     /\ \A j \in 1..(i - 1) : matrix_rooms[j].id # chatEvent.room_id
                     /\ radioOut[1].channelIndex = matrix_rooms[i].meshtastic_channel
          ELSE radioOut = << >>

\* C9: an event whose server_timestamp is at most bot_start_time causes no
\* radio send and reaches no plugin handler, and on_room_message returns at
\* once; an event delivered after such drops is handled as usual: if it passed
\* the guards and nothing raised, every plugin handled it and it was sent once
\* when its room is mapped and broadcast is enabled.
C9_BacklogFilter ==
    /\ (chatEvent # NoEvent /\ chatEvent.server_timestamp <= bot_start_time) =>
          /\ radioOut = << >>
          /\ handled = << >>
          /\ chatPc = "done"
          /\ ~escaped
    /\ (droppedBefore > 0 /\ ChatDone /\ ChatAccepted /\ ~escaped) =>
          /\ handled = plugins
          /\ Len(radioOut) = (IF RoomMapped /\ broadcast_enabled THEN 1 ELSE 0)
    /\ \A i \in 1..Len(radioLog) : radioLog[i] <= chatSeq

\* C9 witness: after an event with server_timestamp = bot_start_time was
\* dropped, a later event has been sent to the radio
C9_Witness ==
    /\ droppedBefore > 0
    /\ chatSeq = 2
    /\ Len(radioOut) = 1
    /\ radioLog = <<2>>

\* total of the UTF-8 widths of the characters of a text
RECURSIVE SumWidths(_)
SumWidths(t) ==
    IF t = << >> THEN 0
    ELSE IF Len(t) = 1 THEN Utf8Width(t[1])
         ELSE SumWidths(SubSeq(t, 1, Len(t) \div 2))
              + SumWidths(SubSeq(t, Len(t) \div 2 + 1, Len(t)))

\* the longest prefix of t, in whole characters, of at most n bytes
FittingPrefix(t, n) ==
    LET k == CHOOSE k \in 0..Len(t) :
                /\ SumWidths(SubSeq(t, 1, k)) <= n
                /\ k < Len(t) => SumWidths(SubSeq(t, 1, k + 1)) > n
    IN  SubSeq(t, 1, k)

\* text starts with the characters of tag
StartsWith(text, tag) == Len(text) >= Len(tag) /\ SubSeq(text, 1, Len(tag)) = tag

BobMeshYo == <<"B", "o", "b", "/", "M", "e", "s", "h", ":", " ", "y", "o">>

C16_SelfIdentityGuard ==
    /\ (chatEvent # NoEvent /\ chatEvent.sender = bot_user_id) =>
          /\ radioOut = << >>
          /\ handled = << >>
          /\ chatPc = "done"
          /\ ~escaped
    /\ radioLog = << >>

\* C16 witness: a message relayed from the radio has come back as a chat
\* event in a mapped room, after the start, with broadcast enabled, and
\* on_room_message has returned without a send
C16_Witness ==
    /\ chatPc = "done"
    /\ chatSent # << >>
    /\ chatEvent = EchoEvent(chatSent[1])
    /\ RoomMapped
    /\ broadcast_enabled
    /\ radioOut = << >>

\* C19 (as claimed): every text on_room_message hands to sendText, prefix
\* included, is of at most 227 bytes.
C19_RadioPayloadCeiling ==
    \A i \in 1..Len(radioOut) : SumWidths(radioOut[i].text) <= MaxBytes

----------------------------------------------------------------------------
(* Properties of the radio path *)

\* on_meshtastic_message has returned, or raised, for packet
RadioDone == radioPc = "done"

\* the channel the packet is on
PacketChannel == IF packet.has_channel THEN packet.channel ELSE 0

\* the rooms of the matrix_rooms entries of channel c, in order
RoomsOfChannel(c) ==
    LET hits == SelectSeq(matrix_rooms, LAMBDA r : r.meshtastic_channel = c)
    IN  [i \in 1..Len(hits) |-> hits[i].id]

\* the rooms a matrix_relay was scheduled for, in order
ScheduledRooms ==
    LET relays == SelectSeq(scheduled, LAMBDA task : task.kind = "relay")
    IN  [i \in 1..Len(relays) |-> relays[i].room_id]

\* the plugins a handle_meshtastic_message was scheduled for, in order
ScheduledPlugins ==
    LET calls == SelectSeq(scheduled, LAMBDA task : task.kind = "plugin")
    IN  [i \in 1..Len(calls) |-> calls[i].plugin]

\* packet is a packet with text on a mapped channel
PacketRelayable ==
    /\ packet.text \notin {None, << >>}
    /\ packet.has_channel \/ packet.portnum = "TEXT_MESSAGE_APP"
    /\ RoomsOfChannel(PacketChannel) # << >>

\* C4 (as claimed): for a text packet on a mapped channel every plugin's radio
\* handler and a chat send for every room of the channel are scheduled,
\* although a plugin's configure step may raise.
C4_RadioPluginIsolation ==
    (RadioDone /\ PacketRelayable) =>
        /\ ScheduledPlugins = plugins
        /\ ScheduledRooms = RoomsOfChannel(PacketChannel)

\* C7 (as claimed): a packet whose portnum is not TEXT_MESSAGE_APP schedules
\* no chat send and no plugin handler.
C7_NonTextNeverRelayed ==
    (packet # NoPacket /\ packet.portnum # "TEXT_MESSAGE_APP") => scheduled = << >>

\* C10 (as claimed): for a text packet on channel c the chat sends scheduled
\* are exactly one per matrix_rooms entry of channel c, none if there is none.
C10_FanOutExact ==
    (RadioDone /\ packet.portnum = "TEXT_MESSAGE_APP" /\ packet.text \notin {None, << >>}) =>
        ScheduledRooms = RoomsOfChannel(PacketChannel)

\* the matrix_relay calls scheduled for packet, in order
ScheduledRelays == SelectSeq(scheduled, LAMBDA task : task.kind = "relay")

\* the names the lookup may have given for the sender of packet: the node id,
\* or the longname the table holds for it if that is not empty (the table is
\* written once, by the refresh, and the lookup ran before or after it)
SenderNames ==
    {packet.fromId} \cup
        (IF longnames[packet.fromId] \notin {None, << >>}
         THEN {longnames[packet.fromId]} ELSE {})

\* the content of the chat message for text t of the sender named N
Envelope(N, t) ==
    [ msgtype |-> "m.text",
      body |-> <<"[">> \o N \o <<"/">> \o local_meshnet_name \o <<"]", ":", " ">> \o t,
      meshtastic_longname |-> N,
      meshtastic_meshnet |-> local_meshnet_name ]

\* C11 (as claimed): a TEXT_MESSAGE_APP packet of node n with text t on a
\* mapped channel yields one chat message for each room of the channel, with
\* body "[N/M]: t", msgtype m.text, meshtastic_longname N and
\* meshtastic_meshnet M, where N is the longname stored for n, or n, and M the
\* local meshnet name.
C11_RadioToChatEnvelope ==
    (RadioDone /\ packet.portnum = "TEXT_MESSAGE_APP" /\ PacketRelayable) =>
        \E N \in SenderNames :
            /\ ScheduledRooms = RoomsOfChannel(PacketChannel)
            /\ \A i \in 1..Len(ScheduledRelays) :
                  Content(ScheduledRelays[i]) = Envelope(N, packet.text)

\* C17 (as claimed): whatever the table holds for the sender of a packet with
\* text on a mapped channel (nothing, an empty longname, a longname), the
\* longname used is the stored one if not empty and the node id otherwise,
\* and the packet is relayed: a chat send under that name is scheduled for
\* every room of the channel.
C17_LookupNeverFailsRelay ==
    (packet # NoPacket /\ PacketRelayable) =>
        /\ pktLongname \in SenderNames
        /\ \A i \in 1..Len(ScheduledRelays) :
              ScheduledRelays[i].longname = pktLongname
        /\ RadioDone => Len(ScheduledRelays) = Len(RoomsOfChannel(PacketChannel))

\* the rooms of the sends issued for packet number p, in call order
SentRooms(p) ==
    LET sends == SelectSeq(chatSent, LAMBDA e : e.pkt = p)
    IN  [i \in 1..Len(sends) |-> sends[i].room_id]

\* the rooms of the sends of packet number p that wait on the event loop
QueuedRooms(p) ==
    LET tasks == SelectSeq(loopQueue, LAMBDA task : task.kind = "relay" /\ task.pkt = p)
    IN  [i \in 1..Len(tasks) |-> tasks[i].room_id]

\* a send of packet number pktSeq has timed out or raised
SomeSendFailed == \E i \in 1..Len(chatSent) :
    chatSent[i].pkt = pktSeq /\ chatSent[i].result # "sent"

\* a step of the event loop that issues a send takes that send, and no other
\* coroutine, off the queue, whatever the result; it changes nothing of the
\* callback or of main()
SendStep ==
    chatSent' # chatSent =>
        /\ loopQueue # << >>
        /\ Head(loopQueue).kind = "relay"
        /\ loopQueue' = Tail(loopQueue)
        /\ Len(chatSent') = Len(chatSent) + 1
        /\ SubSeq(chatSent', 1, Len(chatSent)) = chatSent
        /\ chatSent'[Len(chatSent')].pkt = Head(loopQueue).pkt
        /\ chatSent'[Len(chatSent')].room_id = Head(loopQueue).room_id
        /\ UNCHANGED <<radioVars, mainVars, chatVars>>

\* the queue loses a coroutine only at its head
QueueStep == Len(loopQueue') < Len(loopQueue) => loopQueue' = Tail(loopQueue)

\* C12: every send the callback scheduled for a packet is issued exactly once
\* or still waits on the event loop, whatever the other sends of the packet
\* did: when a send of the packet has timed out or raised, the callback has
\* scheduled (or goes on to schedule) one send for each room of the channel,
\* each of them is issued once and none twice, and a waiting send leaves the
\* queue only by being issued; the failed send changes nothing but the record
\* of sends.
C12_SendFailureIsolation ==
    /\ [](packet # NoPacket =>
             SentRooms(pktSeq) \o QueuedRooms(pktSeq) = ScheduledRooms)
    /\ []((RadioDone /\ SomeSendFailed) =>
             SentRooms(pktSeq) \o QueuedRooms(pktSeq) = RoomsOfChannel(PacketChannel))
    /\ [][SendStep /\ QueueStep]_vars

\* C12 witness: the send of a packet to the first room timed out and its send
\* to the second room was issued after that and went through
C12_Witness ==
    /\ Len(chatSent) = 2
    /\ chatSent[1].pkt = chatSent[2].pkt
    /\ chatSent[1].room_id = Room1 /\ chatSent[1].result = "timeout"
    /\ chatSent[2].room_id = Room2 /\ chatSent[2].result = "sent"

\* packet numbers of the sends issued, then of the sends waiting, in order
RelayOrder ==
    LET waiting == SelectSeq(loopQueue, LAMBDA task : task.kind = "relay")
    IN  [i \in 1..Len(chatSent) |-> chatSent[i].pkt]
        \o [i \in 1..Len(waiting) |-> waiting[i].pkt]

\* C13: sends are issued to the chat client in the order in which their
\* packets were received (so also for each room), whatever plugin handlers
\* and sends wait on the event loop, and the chat events that reach sendText
\* do so in the order in which they were delivered.
C13_PerSourceOrdering ==
    /\ \A i, j \in 1..Len(RelayOrder) : i < j => RelayOrder[i] <= RelayOrder[j]
    /\ \A i, j \in 1..Len(radioLog) : i < j => radioLog[i] < radioLog[j]

\* C13 witness: the sends of two packets to one room were issued, the send of
\* the first packet first
C13_Witness ==
    \E i, j \in 1..Len(chatSent) :
        /\ i < j
        /\ chatSent[i].pkt = 1 /\ chatSent[j].pkt = 2
        /\ chatSent[i].room_id = chatSent[j].room_id

\* s is the first Len(s) elements of t
IsPrefix(s, t) == Len(s) <= Len(t) /\ s = SubSeq(t, 1, Len(s))

\* the plugins whose handler for packet number p waits on the event loop
QueuedPlugins(p) ==
    LET tasks == SelectSeq(loopQueue, LAMBDA task : task.kind = "plugin" /\ task.pkt = p)
    IN  [i \in 1..Len(tasks) |-> tasks[i].plugin]

\* C18: on the chat path the handlers are awaited one after the other in the
\* order of plugins, and sendText is called after the last of them; on the
\* radio path the handlers are scheduled in the order of plugins and before
\* any send of the packet, they start in that order (the handlers of a packet
\* that still wait are consecutive plugins, in order, up to the last plugin
\* and ahead of the sends of the packet when a send waits too), and a send of
\* a packet is issued only when none of its handlers is left to schedule or
\* to start.
C18_PluginOrdering ==
    /\ IsPrefix(handled, plugins)
    /\ chatPc = "plugins" => pluginIdx = Len(handled) + 1
    /\ radioOut # << >> => handled = plugins
    /\ IsPrefix(ScheduledPlugins, plugins)
    /\ ScheduledRelays # << >> =>
          /\ ScheduledPlugins = plugins
          /\ scheduled = SelectSeq(scheduled, LAMBDA task : task.kind = "plugin")
                          \o ScheduledRelays
    /\ \A p \in 1..pktSeq :
          /\ \E k \in 0..Len(plugins) : \E m \in k..Len(plugins) :
                /\ QueuedPlugins(p) = SubSeq(plugins, k + 1, m)
                /\ QueuedRooms(p) # << >> => m = Len(plugins)
          /\ LET mine == SelectSeq(loopQueue, LAMBDA task : task.pkt = p)
             IN  \A i, j \in 1..Len(mine) :
                    (mine[i].kind = "relay" /\ mine[j].kind = "plugin") => j < i
          /\ SentRooms(p) # << >> =>
                /\ QueuedPlugins(p) = << >>
                /\ p = pktSeq => radioPc # "plugins"

\* C18 witness: a packet was sent to the chat after all its handlers started
C18_Witness ==
    /\ Len(plugins) > 1
    /\ chatSent # << >>
    /\ QueuedPlugins(pktSeq) = << >>
    /\ ScheduledPlugins = plugins

\* a step of on_meshtastic_message issues no send: at most it puts the
\* coroutine it scheduled last at the end of the queue of the event loop
CallbackStep ==
    radioVars' # radioVars =>
        /\ chatSent' = chatSent
        /\ \/ loopQueue' = loopQueue
           \/ /\ scheduled' # << >>
              /\ loopQueue' = Append(loopQueue, scheduled'[Len(scheduled')])

\* C20: on_meshtastic_message issues no chat send and runs no handler itself:
\* what it triggers goes on the queue of the event loop, every send is issued
\* by a step of the event loop, and the callback is never held up: whatever
\* waits on the event loop (a send that hangs included), its next step can be
\* taken until it has returned.
C20_CrossContextHandOff ==
    /\ [][CallbackStep /\ SendStep]_vars
    /\ [](radioPc \in {"plugins", "rooms", "done"} =>
             ENABLED (RadioPluginOk \/ RadioPluginConfigureRaises
                      \/ RadioRoomStep \/ RadioReturn))

\* C20 witness: the callback has returned while the sends it scheduled have
\* not been started
C20_Witness ==
    /\ radioPc = "idle"
    /\ pktSeq = 1
    /\ chatSent = << >>
    /\ QueuedRooms(1) = <<Room1, Room2>>

----------------------------------------------------------------------------
(* Properties of both paths *)

----------------------------------------------------------------------------
(* Properties of the loop of main() *)

\* C6 (as claimed): while sync_forever runs, update_longnames runs again
\* before more than one refresh interval (60 s, two long-polls of 30 s) has
\* gone by since it last ran; sinceRefresh counts the long-polls of the
\* current, unfailed run of sync_forever.
C6_PeriodicRefresh ==
    mainPc = "sync" => sinceRefresh <= RefreshIntervalPolls

----------------------------------------------------------------------------
(* Properties of truncate_message *)

\* C15: for a text of characters of 1 to 4 bytes and max_bytes >= 0,
\* truncate_message returns a prefix of the text in whole characters, of at
\* most max_bytes bytes, and the longest such prefix (the next character of
\* the text would not fit); a text of at most max_bytes bytes is returned
\* unchanged.
C15_Utf8SafeTruncation ==
    truncated_text # None =>
        /\ Len(truncated_text) <= Len(trunc_text)
        /\ truncated_text = SubSeq(trunc_text, 1, Len(truncated_text))
        /\ SumWidths(truncated_text) <= trunc_max_bytes
        /\ Len(truncated_text) < Len(trunc_text) =>
              SumWidths(SubSeq(trunc_text, 1, Len(truncated_text) + 1)) > trunc_max_bytes
        /\ SumWidths(trunc_text) <= trunc_max_bytes => truncated_text = trunc_text

\* C15 witness: the cut falls inside a 3-byte character, which is dropped whole
C15_Witness ==
    /\ trunc_text = <<"a", "u3", "a">>
    /\ trunc_max_bytes = 3
    /\ truncated_text = <<"a">>

====
